---- MODULE Spec2Model ----
(***************************************************************************)
(* Model of yaqc/_socket.py: the client side of the Avro RPC protocol of   *)
(* yaq.  A Socket frames buffers on a TCP stream (_write / _read), runs    *)
(* the handshake (handshake) and issues calls (message).                   *)
(*                                                                         *)
(* The codec (fastavro) and the server are the environment.  The codec is  *)
(* modelled by the Avro binary encoding of the few types the protocol      *)
(* uses; the server by an action that queues a response on the client's    *)
(* incoming byte stream.  The logger calls of _read carry no state and are *)
(* left out (the one at line 44 is an f-string with an unclosed bracket,   *)
(* which Python rejects; the model follows the statements around it).      *)
(*                                                                         *)
(* A recv for the length prefix finds the 4 bytes whole whenever the       *)
(* stream is aligned, since the server queues whole buffers; a recv for    *)
(* payload may return any shorter non-empty part of what it asked for.     *)
(***************************************************************************)
EXTENDS Integers, Sequences, FiniteSets, TLC

(***************************************************************************)
(* Bounds of the model.                                                    *)
(***************************************************************************)
\* calls (handshake or message) one caller issues in a behaviour
MaxCalls == 3
\* calls one caller issues when the server may pack its responses
MaxPackedCalls == 1
\* NONE answers the server gives to the handshake requests of one call
MaxNone == 2
\* a short recv returns at most this many bytes (or everything asked for)
MaxShort == 2
\* the server cuts a value into buffers of at most this many bytes, and a last
MaxCut == 2
\* the number of _write / _read round trips a behaviour follows
MaxEchoCalls == 2
\* bytes the peer sends before it closes its end
MaxSent == 6
\* calls each caller issues when two callers share the connection
MaxSharedCalls == 1
\* calls followed when the methods have named types
MaxTypedCalls == 2

(***************************************************************************)
(* Program constants.                                                      *)
(***************************************************************************)
BUFFSIZE == 4096
\* width of the length prefix, struct format ">L"
PrefixLen == 4
\* size of the MD5 hashes of the handshake records
HashSize == 16

(***************************************************************************)
(* Python values.  Every value carries its type in field t; the payload    *)
(* field is named after the type.                                          *)
(***************************************************************************)
NullV == [t |-> "null"]
BoolV(b) == [t |-> "boolean", b |-> b]
IntV(n) == [t |-> "int", i |-> n]
StrV(s) == [t |-> "string", s |-> s]
BytesV(x) == [t |-> "bytes", x |-> x]
MapV(m) == [t |-> "map", m |-> m]
RecV(f) == [t |-> "record", f |-> f]
\* a symbol of an enum (a str in Python)
EnumV(e) == [t |-> "enum", e |-> e]
\* a local variable that no assignment has reached yet
Unbound == [t |-> "unbound"]

(***************************************************************************)
(* Schemas.                                                                *)
(***************************************************************************)
S_null == [type |-> "null"]
S_boolean == [type |-> "boolean"]
S_int == [type |-> "int"]
S_string == [type |-> "string"]
S_map == [type |-> "map"]
S_fixed == [type |-> "fixed", size |-> HashSize]
S_union(bs) == [type |-> "union", branches |-> bs]
S_enum(syms) == [type |-> "enum", symbols |-> syms]
S_record(fs) == [type |-> "record", fields |-> fs]
Field(n, s) == [name |-> n, type |-> s]
\* a named type: the schema s with its "name"
Named(name, s) ==
    [k \in DOMAIN s \cup {"name"} |-> IF k = "name" THEN name ELSE s[k]]
\* a named type referred to by its name
S_ref(name) == [type |-> "ref", name |-> name]

\* {"type": "map", "values": "bytes"}, the metadata schema
MetaSchema == S_map
\* ["string"], the schema of a remote error
ErrorSchema == S_union(<<S_string>>)

handshake_request ==
    S_record(<<Field("clientHash", S_fixed),
               Field("clientProtocol", S_union(<<S_null, S_string>>)),
               Field("serverHash", S_fixed),
               Field("meta", S_union(<<S_null, S_map>>))>>)

handshake_response ==
    Named("HandshakeResponse",
      S_record(<<Field("match",
                       Named("HandshakeMatch",
                             S_enum(<<"BOTH", "CLIENT", "NONE">>))),
                 Field("serverProtocol", S_union(<<S_null, S_string>>)),
                 Field("serverHash",
                       S_union(<<S_null, Named("MD5", S_fixed)>>)),
                 Field("meta", S_union(<<S_null, S_map>>))>>))

(***************************************************************************)
(* The codec: Avro binary encoding.                                        *)
(***************************************************************************)
RECURSIVE Varint(_)
Varint(z) ==
    IF z < 128 THEN <<z>> ELSE <<(z % 128) + 128>> \o Varint(z \div 128)

ZigZag(n) == IF n >= 0 THEN 2 * n ELSE -2 * n - 1
UnZigZag(z) == IF z % 2 = 0 THEN z \div 2 ELSE -((z + 1) \div 2)

WriteLong(n) == Varint(ZigZag(n))

NoLong == [ok |-> FALSE, n |-> 0, next |-> 0]

RECURSIVE ReadVarint(_, _, _, _)
ReadVarint(buf, p, acc, mult) ==
    IF p > Len(buf) THEN NoLong
    ELSE IF buf[p] < 128
         THEN [ok |-> TRUE, n |-> acc + buf[p] * mult, next |-> p + 1]
         ELSE ReadVarint(buf, p + 1, acc + (buf[p] - 128) * mult, mult * 128)

ReadLong(buf, p) ==
    LET r == ReadVarint(buf, p, 0, 1)
    IN  IF r.ok THEN [r EXCEPT !.n = UnZigZag(r.n)] ELSE NoLong

\* position of symbol or name x in the sequence seq, 0 when absent
IndexOf(seq, x) ==
    IF \E k \in 1..Len(seq) : seq[k] = x
    THEN CHOOSE k \in 1..Len(seq) : seq[k] = x /\ \A j \in 1..(k - 1) : seq[j] # x
    ELSE 0

\* whether the writer accepts value v under schema s
RECURSIVE Encodable(_, _)
Encodable(s, v) ==
    CASE s.type = "null" -> v.t = "null"
      [] s.type = "boolean" -> v.t = "boolean"
      [] s.type = "int" -> v.t = "int"
      [] s.type = "string" -> v.t = "string"
      [] s.type = "map" -> v.t = "map"
      [] s.type = "fixed" -> v.t = "bytes" /\ Len(v.x) = s.size
      [] s.type = "enum" -> v.t = "enum" /\ IndexOf(s.symbols, v.e) > 0
      [] s.type = "union" ->
            \E k \in 1..Len(s.branches) : Encodable(s.branches[k], v)
      [] s.type = "record" ->
            /\ v.t = "record"
            /\ Len(v.f) = Len(s.fields)
            /\ \A k \in 1..Len(s.fields) : Encodable(s.fields[k].type, v.f[k])
      [] OTHER -> FALSE

RECURSIVE EncodeMap(_)
EncodeMap(m) ==
    IF m = <<>> THEN <<>>
    ELSE WriteLong(Len(Head(m)[1])) \o Head(m)[1]
         \o WriteLong(Len(Head(m)[2])) \o Head(m)[2]
         \o EncodeMap(Tail(m))

RECURSIVE Encode(_, _)
RECURSIVE EncodeFields(_, _, _)
EncodeFields(fs, vs, k) ==
    IF k > Len(fs) THEN <<>>
    ELSE Encode(fs[k].type, vs[k]) \o EncodeFields(fs, vs, k + 1)

\* fastavro.schemaless_writer: the bytes of value v under schema s
Encode(s, v) ==
    CASE s.type = "null" -> <<>>
      [] s.type = "boolean" -> IF v.b THEN <<1>> ELSE <<0>>
      [] s.type = "int" -> WriteLong(v.i)
      [] s.type = "string" -> WriteLong(Len(v.s)) \o v.s
      [] s.type = "map" ->
            IF v.m = <<>> THEN WriteLong(0)
            ELSE WriteLong(Len(v.m)) \o EncodeMap(v.m) \o WriteLong(0)
      [] s.type = "fixed" -> v.x
      [] s.type = "enum" -> WriteLong(IndexOf(s.symbols, v.e) - 1)
      [] s.type = "union" ->
            LET k == CHOOSE k \in 1..Len(s.branches) :
                        /\ Encodable(s.branches[k], v)
                        /\ \A j \in 1..(k - 1) : ~Encodable(s.branches[j], v)
            IN  WriteLong(k - 1) \o Encode(s.branches[k], v)
      [] s.type = "record" -> EncodeFields(s.fields, v.f, 1)

NoValue == [ok |-> FALSE, val |-> NullV, next |-> 0]
Got(v, p) == [ok |-> TRUE, val |-> v, next |-> p]

\* size bytes starting at position p, when the buffer holds that many
ReadExactly(buf, p, size) ==
    IF size >= 0 /\ p + size - 1 <= Len(buf)
    THEN [ok |-> TRUE, x |-> SubSeq(buf, p, p + size - 1), next |-> p + size]
    ELSE [ok |-> FALSE, x |-> <<>>, next |-> 0]

ReadBytes(buf, p) ==
    LET n == ReadLong(buf, p)
    IN  IF n.ok THEN ReadExactly(buf, n.next, n.n)
        ELSE [ok |-> FALSE, x |-> <<>>, next |-> 0]

\* count entries (string key, bytes value) of a map block
RECURSIVE ReadEntries(_, _, _, _)
ReadEntries(buf, p, count, acc) ==
    IF count = 0 THEN [ok |-> TRUE, m |-> acc, next |-> p]
    ELSE LET k == ReadBytes(buf, p)
         IN  IF ~k.ok THEN [ok |-> FALSE, m |-> <<>>, next |-> 0]
             ELSE LET v == ReadBytes(buf, k.next)
                  IN  IF ~v.ok THEN [ok |-> FALSE, m |-> <<>>, next |-> 0]
                      ELSE ReadEntries(buf, v.next, count - 1,
                                       Append(acc, <<k.x, v.x>>))

RECURSIVE ReadMap(_, _, _)
ReadMap(buf, p, acc) ==
    LET n == ReadLong(buf, p)
    IN  IF ~n.ok \/ n.n < 0 THEN NoValue
        ELSE IF n.n = 0 THEN Got(MapV(acc), n.next)
        ELSE LET es == ReadEntries(buf, n.next, n.n, acc)
             IN  IF es.ok THEN ReadMap(buf, es.next, es.m) ELSE NoValue

RECURSIVE DecodeAt(_, _, _)
RECURSIVE ReadFields(_, _, _, _, _)
ReadFields(fs, buf, p, k, acc) ==
    IF k > Len(fs) THEN Got(RecV(acc), p)
    ELSE LET r == DecodeAt(fs[k].type, buf, p)
         IN  IF r.ok THEN ReadFields(fs, buf, r.next, k + 1, Append(acc, r.val))
             ELSE NoValue

\* one value of schema s read from position p of buf; fails when the bytes
\* run out before the value is complete
DecodeAt(s, buf, p) ==
    CASE s.type = "null" -> Got(NullV, p)
      [] s.type = "boolean" ->
            IF p <= Len(buf) THEN Got(BoolV(buf[p] # 0), p + 1) ELSE NoValue
      [] s.type = "int" ->
            LET n == ReadLong(buf, p)
            IN  IF n.ok THEN Got(IntV(n.n), n.next) ELSE NoValue
      [] s.type = "string" ->
            LET b == ReadBytes(buf, p)
            IN  IF b.ok THEN Got(StrV(b.x), b.next) ELSE NoValue
      [] s.type = "map" -> ReadMap(buf, p, <<>>)
      [] s.type = "fixed" ->
            LET b == ReadExactly(buf, p, s.size)
            IN  IF b.ok THEN Got(BytesV(b.x), b.next) ELSE NoValue
      [] s.type = "enum" ->
            LET n == ReadLong(buf, p)
            IN  IF n.ok /\ n.n >= 0 /\ n.n < Len(s.symbols)
                THEN Got(EnumV(s.symbols[n.n + 1]), n.next) ELSE NoValue
      [] s.type = "union" ->
            LET n == ReadLong(buf, p)
            IN  IF n.ok /\ n.n >= 0 /\ n.n < Len(s.branches)
                THEN DecodeAt(s.branches[n.n + 1], buf, n.next) ELSE NoValue
      [] s.type = "record" -> ReadFields(s.fields, buf, p, 1, <<>>)

\* fastavro.schemaless_reader on a buffer rewound to its start
Decode(s, buf) == DecodeAt(s, buf, 1)


(***************************************************************************)
(* Schema resolution: fastavro.parse_schema(schema, expand=True,           *)
(* named_schemas=named).  named is the dict of the connection, here the    *)
(* set of its items [name, def].  A pass stores every named type it meets  *)
(* under its name and puts the stored definition in the place of a name.   *)
(***************************************************************************)
IsDefinition(schema) ==
    schema.type \in {"record", "enum", "fixed"} /\ "name" \in DOMAIN schema

Known(named, name) == \E e \in named : e.name = name
Definition(named, name) == (CHOOSE e \in named : e.name = name).def

\* Register forgetting the other names
RegisterAlone(named, name, def) == {[name |-> name, def |-> def]}

\* named[name] = def
Register(named, name, def) ==
    {e \in named : e.name # name} \cup {[name |-> name, def |-> def]}

RECURSIVE ParseSchema(_, _)
RECURSIVE ParseEach(_, _, _, _)
\* ParseEach after the pass r over the schema at position k
ParseRest(list, k, acc, r) ==
    IF r.ok THEN ParseEach(list, k + 1, r.named, Append(acc, r.schema))
    ELSE [ok |-> FALSE, list |-> acc, named |-> r.named]

\* the schemas of list from position k on, parsed in order
ParseEach(list, k, named, acc) ==
    IF k > Len(list) THEN [ok |-> TRUE, list |-> acc, named |-> named]
    ELSE ParseRest(list, k, acc, ParseSchema(list[k], named))

\* the union of the branches that the passes r returned
ParsedUnion(r) == [ok |-> r.ok, schema |-> S_union(r.list), named |-> r.named]

\* the record schema with the field types parsed, stored under its name
StoreRecord(schema, ok, named) ==
    [ok |-> ok, schema |-> schema,
     named |-> IF ok /\ IsDefinition(schema)
               THEN Register(named, schema.name, schema) ELSE named]

ParsedRecord(schema, r) ==
    StoreRecord(IF r.ok
                THEN [schema EXCEPT !.fields =
                         [k \in 1..Len(schema.fields) |->
                             Field(schema.fields[k].name, r.list[k])]]
                ELSE schema,
                r.ok, r.named)

FieldTypes(schema) == [k \in 1..Len(schema.fields) |-> schema.fields[k].type]

\* one pass: [ok, schema, named]; ok is FALSE when a name is unknown
ParseSchema(schema, named) ==
    CASE schema.type = "ref" ->
            IF Known(named, schema.name)
            THEN [ok |-> TRUE, schema |-> Definition(named, schema.name),
                  named |-> named]
            ELSE [ok |-> FALSE, schema |-> schema, named |-> named]
      [] schema.type = "union" ->
            ParsedUnion(ParseEach(schema.branches, 1, named, <<>>))
      [] schema.type = "record" ->
            ParsedRecord(schema, ParseEach(FieldTypes(schema), 1, named, <<>>))
      [] schema.type \in {"enum", "fixed"} ->
            [ok |-> TRUE, schema |-> schema,
             named |-> IF IsDefinition(schema)
                       THEN Register(named, schema.name, schema) ELSE named]
      [] OTHER -> [ok |-> TRUE, schema |-> schema, named |-> named]

ResolveEvent(in, out) == [e |-> "resolve", in |-> in, out |-> out]

\* what two passes leave: p the first, q the second, which was given again
Passes(schema, again, p, q) ==
    IF ~p.ok
    THEN [ok |-> FALSE, schema |-> p.schema, named |-> p.named, events |-> <<>>]
    ELSE [ok |-> q.ok, schema |-> q.schema, named |-> q.named,
          events |-> <<ResolveEvent(schema, p.schema)>>
                     \o (IF q.ok THEN <<ResolveEvent(again, q.schema)>>
                         ELSE <<>>)]

\* the result of one pass p, with no second pass
OnePass(schema, p) ==
    [ok |-> p.ok, schema |-> p.schema, named |-> p.named,
     events |-> IF p.ok THEN <<ResolveEvent(schema, p.schema)>> ELSE <<>>]

\* ResolveTwice with one pass only
ResolveOnce(schema, named) == OnePass(schema, ParseSchema(schema, named))

\* the second pass, over what the first pass p returned
SecondPass(schema, p) ==
    Passes(schema, p.schema, p,
           IF p.ok THEN ParseSchema(p.schema, p.named) ELSE p)

\* schema = parse_schema(schema, ...); schema = parse_schema(schema, ...):
\* the second pass takes what the first returned; events are the passes that
\* returned
ResolveTwice(schema, named) == SecondPass(schema, ParseSchema(schema, named))

(***************************************************************************)
(* Framing: _write puts a 4-byte big-endian length in front of the bytes.  *)
(***************************************************************************)
\* struct.pack(">L", n)
Pack(n) ==
    <<(n \div 16777216) % 256, (n \div 65536) % 256, (n \div 256) % 256, n % 256>>

\* Unpack taking the length from the last byte alone
UnpackLowByte(b) == b[4]

\* struct.unpack_from(">L", b)[0]
Unpack(b) == b[1] * 16777216 + b[2] * 65536 + b[3] * 256 + b[4]

\* what _write hands to sendall for the bytes out
Frame(out) == Pack(Len(out)) \o out

Min(a, b) == IF a < b THEN a ELSE b

\* the sequence seq without its first k elements
Drop(seq, k) == SubSeq(seq, k + 1, Len(seq))

(***************************************************************************)
(* Argument binding: the loop head shared by _validate_parameters and      *)
(* _write_parameters.  kwargs is a sequence of <<name, value>> pairs.      *)
(***************************************************************************)
HasKey(kwargs, name) == \E k \in 1..Len(kwargs) : kwargs[k][1] = name
Lookup(kwargs, name) ==
    kwargs[CHOOSE k \in 1..Len(kwargs) : kwargs[k][1] = name][2]

\* BindStep taking a positional argument before it looks at the names
BindStepPositionalFirst(parameter, args, kwargs, data) ==
    IF args # <<>>
    THEN [data |-> Head(args), args |-> Tail(args)]
    ELSE IF HasKey(kwargs, parameter.name)
         THEN [data |-> Lookup(kwargs, parameter.name), args |-> args]
         ELSE [data |-> data, args |-> args]

\* one pass through "if name in kwargs ... elif args ..."
BindStep(parameter, args, kwargs, data) ==
    IF HasKey(kwargs, parameter.name)
    THEN [data |-> Lookup(kwargs, parameter.name), args |-> args]
    ELSE IF args # <<>>
         THEN [data |-> Head(args), args |-> Tail(args)]
         ELSE [data |-> data, args |-> args]

\* what schemaless_writer(out, schema, data) does with the bound data:
\* "ok", or the error it ends with
WriterResult(schema, data) ==
    IF data = Unbound THEN "UnboundLocalError"
    ELSE IF Encodable(schema, data) THEN "ok" ELSE "EncodeError"

\* one pass of the loop of _validate_parameters and _write_parameters up to
\* the writer: the schema resolved twice, then the bound data encoded under it
Encoded(r, data) ==
    [kind |-> IF r.ok THEN WriterResult(r.schema, data) ELSE "UnknownType",
     schema |-> r.schema, named |-> r.named, events |-> r.events]

EncodeStep(parameter, data, named) ==
    Encoded(ResolveTwice(parameter.type, named), data)

\* [kind, named]: "ok" or the error the loop ends with, and the named types
\* the passes have left
\* _validate_parameters accepting whatever it is given
ValidateNothing(request, args, kwargs, named) ==
    [kind |-> "ok", named |-> named]

RECURSIVE ValidateFrom(_, _, _, _, _, _)
\* the loop after its pass k, whose binding is b and whose encoding is w
ValidateRest(request, k, kwargs, b, w) ==
    IF w.kind = "ok"
    THEN ValidateFrom(request, k + 1, b.args, kwargs, b.data, w.named)
    ELSE [kind |-> w.kind, named |-> w.named]

ValidateNext(request, k, kwargs, b, named) ==
    ValidateRest(request, k, kwargs, b, EncodeStep(request[k], b.data, named))

ValidateFrom(request, k, args, kwargs, data, named) ==
    IF k > Len(request) THEN [kind |-> "ok", named |-> named]
    ELSE ValidateNext(request, k, kwargs,
                      BindStep(request[k], args, kwargs, data), named)

\* _validate_parameters: every parameter bound and encoded, nothing written
ValidateParameters(request, args, kwargs, named) ==
    ValidateFrom(request, 1, args, kwargs, Unbound, named)

\* method_schema.get(key, default)
MethodRequest(ms) == IF "request" \in ms.keys THEN ms.request ELSE <<>>
MethodResponse(ms) == IF "response" \in ms.keys THEN ms.response ELSE S_null

\* response[name] of a decoded record
RecordGet(s, v, name) ==
    v.f[CHOOSE k \in 1..Len(s.fields) : s.fields[k].name = name]


(***************************************************************************)
(* Inputs: hashes, protocol documents, methods and calls.                  *)
(***************************************************************************)
\* b" " * 16, the default client and server hash
Spaces == [k \in 1..HashSize |-> 32]
Zeros == [k \in 1..HashSize |-> 0]
ServerHash == [k \in 1..HashSize |-> 7]
Doc1 == <<100>>
Doc2 == <<101>>

M_add ==
    [name |-> <<97, 100, 100>>, keys |-> {"request", "response"},
     request |-> <<Field("a", S_int), Field("b", S_int)>>, response |-> S_int]
M_label ==
    [name |-> <<108>>, keys |-> {"request", "response"},
     request |-> <<Field("n", S_int), Field("s", S_string)>>,
     response |-> S_string]
\* a method schema with neither "request" nor "response"
M_ping ==
    [name |-> <<112>>, keys |-> {}, request |-> <<>>, response |-> S_null]
NoMethod == [name |-> <<>>, keys |-> {}, request |-> <<>>, response |-> S_null]

MessageInputs ==
    {[m |-> M_add, args |-> a, kwargs |-> k] :
        a \in {<<>>, <<IntV(2)>>, <<IntV(2), IntV(3)>>},
        k \in {<<>>, << <<"b", IntV(5)>> >>, << <<"a", IntV(6)>> >>}}
    \cup
    {[m |-> M_label, args |-> a, kwargs |-> k] :
        a \in {<<IntV(2)>>, <<IntV(2), StrV(<<120>>)>>},
        k \in {<<>>, << <<"s", StrV(<<121>>)>> >>}}
    \cup
    {[m |-> M_ping, args |-> <<>>, kwargs |-> <<>>]}

\* a string whose encoding is longer than one recv chunk, and one whose
\* encoding fills one chunk exactly
BigString == [k \in 1..(BUFFSIZE + PrefixLen) |-> 120]
ChunkString == [k \in 1..(BUFFSIZE - 2) |-> 121]

\* schema and value pairs sent through _write and read back by _read
EchoInputs ==
    {[schema |-> S_null, value |-> NullV],
     [schema |-> S_boolean, value |-> BoolV(TRUE)],
     [schema |-> S_int, value |-> IntV(-3)],
     [schema |-> S_string, value |-> StrV(<<>>)],
     [schema |-> S_string, value |-> StrV(<<111, 107>>)],
     [schema |-> S_string, value |-> StrV(ChunkString)],
     [schema |-> S_string, value |-> StrV(BigString)],
     [schema |-> MetaSchema, value |-> MapV(<<>>)],
     [schema |-> S_union(<<S_null, S_string>>), value |-> NullV],
     [schema |-> S_union(<<S_null, S_string>>), value |-> StrV(Doc1)]}

\* the values written and read back while the peer may close its end
CloseInputs ==
    {[schema |-> S_null, value |-> NullV],
     [schema |-> S_int, value |-> IntV(-3)],
     [schema |-> S_string, value |-> StrV(<<111, 107>>)],
     [schema |-> S_union(<<S_null, S_string>>), value |-> StrV(Doc1)]}

\* the named types of a protocol: an enum, and a record with a field of it
Mode == Named("Mode", S_enum(<<"A", "B">>))
Pair ==
    Named("Pair", S_record(<<Field("m", S_ref("Mode")), Field("n", S_int)>>))

\* methods whose schemas define the named types or refer to them by name
M_set ==
    [name |-> <<115>>, keys |-> {"request"},
     request |-> <<Field("mode", Mode)>>, response |-> S_null]
M_get ==
    [name |-> <<103>>, keys |-> {"response"},
     request |-> <<>>, response |-> S_ref("Mode")]
M_swap ==
    [name |-> <<119>>, keys |-> {"request", "response"},
     request |-> <<Field("a", Mode), Field("b", S_ref("Mode"))>>,
     response |-> S_ref("Mode")]
M_pair ==
    [name |-> <<113>>, keys |-> {"request", "response"},
     request |-> <<Field("p", Pair)>>, response |-> S_ref("Pair")]

TypedInputs ==
    {[m |-> M_set, args |-> <<EnumV(e)>>, kwargs |-> <<>>] : e \in {"A", "Z"}}
    \cup
    {[m |-> M_get, args |-> <<>>, kwargs |-> <<>>],
     [m |-> M_swap, args |-> <<EnumV("A"), EnumV("B")>>, kwargs |-> <<>>],
     [m |-> M_pair, args |-> <<RecV(<<EnumV("B"), IntV(1)>>)>>,
      kwargs |-> <<>>]}

\* the calls made when two callers share the connection
SharedInputs ==
    {[m |-> M_ping, args |-> <<>>, kwargs |-> <<>>],
     [m |-> M_add, args |-> <<IntV(2), IntV(3)>>, kwargs |-> <<>>]}

HandshakeInputs ==
    {[client_hash |-> BytesV(h), client_protocol |-> NullV,
      server_hash |-> BytesV(Spaces)] : h \in {Spaces, Zeros}}

(***************************************************************************)
(* State.                                                                  *)
(***************************************************************************)
VARIABLES
    cl,           \* per caller: position, locals of the running call, result
    wire,         \* buffers handed to sendall that the server has not taken
    sock,         \* bytes the server has sent that no recv has returned
    pending,      \* complete requests the server has not answered
    server_packs, \* whether the server may pack a whole response in a buffer
    named_types,  \* self._named_types: the items [name, def] of the dict
    peer,         \* the server's end: "open", "closed" (recv returns b"" once
                  \* the queued bytes are read) or "reset" (recv raises)
    gh            \* history: what the server sent, what the reads returned

vars == <<cl, wire, sock, pending, server_packs, named_types, peer, gh>>

Callers == {1}
\* the callers when the connection is shared
SharedCallers == {1, 2}

NoInput == [m |-> NoMethod, args |-> <<>>, kwargs |-> <<>>]
NoRead == [schema |-> S_null, buf |-> <<>>, remaining |-> 0, at |-> "none"]
NoOutcome == [kind |-> "none", val |-> NullV]

IdleCaller ==
    [pc |-> "idle", op |-> "none", calls |-> 0, in |-> NoInput,
     method |-> NoMethod, args |-> <<>>, kwargs |-> <<>>, data |-> Unbound,
     i |-> 0, rd |-> NoRead, stack |-> <<>>, ret |-> NullV,
     outcome |-> NoOutcome, log |-> <<>>]

NoHistory ==
    [expect |-> <<>>, sent |-> <<>>, mis |-> FALSE, left |-> <<>>, lost |-> 0,
     nones |-> 0, hs |-> <<>>, reqs |-> <<>>, answer |-> NullV,
     streak |-> 0, after |-> 0, segs |-> 0, packed |-> FALSE,
     owner |-> <<>>, crossed |-> FALSE, mixed |-> FALSE,
     term |-> FALSE, frames |-> <<>>, off |-> 0, stray |-> FALSE]

Init ==
    /\ cl = [c \in Callers |-> IdleCaller]
    /\ wire = <<>>
    /\ sock = <<>>
    /\ pending = <<>>
    /\ server_packs = FALSE
    /\ named_types = {}
    /\ peer = "open"
    /\ gh = NoHistory

\* two callers use the connection without any arrangement between them
InitShared ==
    /\ cl = [c \in SharedCallers |-> IdleCaller]
    /\ wire = <<>>
    /\ sock = <<>>
    /\ pending = <<>>
    /\ server_packs = FALSE
    /\ named_types = {}
    /\ peer = "open"
    /\ gh = NoHistory

\* the server may also send one buffer holding all the values of a response
InitPacked ==
    /\ cl = [c \in Callers |-> IdleCaller]
    /\ wire = <<>>
    /\ sock = <<>>
    /\ pending = <<>>
    /\ server_packs = TRUE
    /\ named_types = {}
    /\ peer = "open"
    /\ gh = NoHistory

(***************************************************************************)
(* Steps shared by the operations.                                         *)
(***************************************************************************)
WriteEvent(bytes) == [e |-> "write", bytes |-> bytes]
ReadEvent(schema) == [e |-> "read", schema |-> schema]
RecvEvent == [e |-> "recv"]
GotEvent(val) == [e |-> "got", val |-> val]

\* _write(bytesio): one sendall of the framed bytes
SocketWrite(c, out) == wire' = Append(wire, [by |-> c, bytes |-> Frame(out)])

\* the caller record when _read(schema) is entered, before its first line
StartRead(rec, schema, pc) ==
    [rec EXCEPT !.pc = pc,
                !.rd = [schema |-> schema, buf |-> <<>>, remaining |-> 0,
                        at |-> "resolve"],
                !.log = Append(@, ReadEvent(schema))]

\* the caller record when the running call ends; its locals are gone
Finish(rec, kind, val) ==
    [rec EXCEPT !.pc = "idle", !.method = NoMethod, !.args = <<>>,
                !.kwargs = <<>>, !.data = Unbound, !.i = 0, !.rd = NoRead,
                !.stack = <<>>, !.ret = NullV,
                !.outcome = [kind |-> kind, val |-> val]]

\* the caller record when a call is entered with the arguments in
Enter(rec, op, in) ==
    [rec EXCEPT !.op = op, !.calls = @ + 1, !.in = in, !.outcome = NoOutcome,
                !.log = <<>>]

\* the number of calls a behaviour follows
CallBudget ==
    IF server_packs THEN MaxPackedCalls
    ELSE IF DOMAIN cl = SharedCallers THEN MaxSharedCalls
    ELSE MaxCalls

Reading(pc) ==
    pc \in {"m_read_meta", "m_read_flag", "m_read_error", "m_read_response",
            "h_read_response", "h_read_meta", "h_read_bool", "h_read_null",
            "e_read"}

(***************************************************************************)
(* message                                                                 *)
(***************************************************************************)
\* MessageCall waiting until no other caller is inside a call
MessageCallAlone(c, in) ==
    /\ cl[c].pc = "idle"
    /\ cl[c].calls < CallBudget
    /\ \A d \in DOMAIN cl : cl[d].pc = "idle"
    /\ cl' = [cl EXCEPT ![c] =
                [Enter(cl[c], "message", in) EXCEPT
                    !.pc = "m_write_meta", !.method = in.m, !.args = in.args,
                    !.kwargs = in.kwargs, !.data = Unbound, !.i = 1]]
    /\ UNCHANGED <<wire, sock, pending, server_packs, peer, named_types, gh>>

\* message is called: _validate_parameters runs before anything is written
MessageCall(c, in) ==
    /\ cl[c].pc = "idle"
    /\ cl[c].calls < CallBudget
    /\ LET v == ValidateParameters(MethodRequest(in.m), in.args, in.kwargs,
                                   named_types)
           rec == Enter(cl[c], "message", in)
       IN  /\ cl' = [cl EXCEPT ![c] =
                    IF v.kind = "ok"
                    THEN [rec EXCEPT !.pc = "m_write_meta", !.method = in.m,
                                     !.args = in.args, !.kwargs = in.kwargs,
                                     !.data = Unbound, !.i = 1]
                    ELSE Finish(rec, v.kind, NullV)]
           /\ named_types' = v.named
    /\ gh' = [gh EXCEPT !.answer = NullV, !.segs = 0, !.after = gh.streak,
                        !.sent = <<>>, !.hs = <<>>, !.reqs = <<>>, !.nones = 0]
    /\ UNCHANGED <<wire, sock, pending, server_packs, peer>>

\* _write_metadata(): the empty map
WriteMetadata(c) ==
    /\ cl[c].pc \in {"m_write_meta", "h_write_meta"}
    /\ LET out == Encode(MetaSchema, MapV(<<>>))
       IN  /\ SocketWrite(c, out)
           /\ cl' = [cl EXCEPT ![c].pc = IF cl[c].pc = "m_write_meta"
                                         THEN "m_write_name" ELSE "h_write_name",
                               ![c].log = Append(@, WriteEvent(Frame(out)))]
    /\ UNCHANGED <<sock, pending, server_packs, peer, named_types, gh>>

\* _write_method_name(name); in handshake the name is "" and the reads follow
WriteMethodName(c) ==
    /\ cl[c].pc \in {"m_write_name", "h_write_name"}
    /\ LET name == IF cl[c].pc = "m_write_name" THEN cl[c].method.name ELSE <<>>
           out == Encode(S_string, StrV(name))
           rec == [cl[c] EXCEPT !.log = Append(@, WriteEvent(Frame(out)))]
       IN  /\ SocketWrite(c, out)
           /\ IF cl[c].pc = "m_write_name"
              THEN /\ cl' = [cl EXCEPT ![c] =
                        [rec EXCEPT !.pc =
                            IF Len(MethodRequest(rec.method)) = 0
                            THEN "m_write_term" ELSE "m_write_param"]]
                   /\ UNCHANGED pending
              ELSE /\ cl' = [cl EXCEPT ![c] =
                        StartRead(rec, handshake_response, "h_read_response")]
                   /\ pending' = Append(pending,
                                   [kind |-> "handshake", by |-> c,
                                    response |-> S_null])
    /\ UNCHANGED <<sock, server_packs, peer, named_types, gh>>

\* one pass of the loop of _write_parameters: bind, resolve, encode, _write
WriteParameter(c) ==
    /\ cl[c].pc = "m_write_param"
    /\ LET request == MethodRequest(cl[c].method)
           parameter == request[cl[c].i]
           b == BindStep(parameter, cl[c].args, cl[c].kwargs, cl[c].data)
           w == EncodeStep(parameter, b.data, named_types)
       IN  /\ named_types' = w.named
           /\ IF w.kind = "ok"
              THEN LET out == Encode(w.schema, b.data)
                   IN  /\ SocketWrite(c, out)
                       /\ cl' = [cl EXCEPT ![c] =
                            [cl[c] EXCEPT !.data = b.data, !.args = b.args,
                                          !.i = @ + 1,
                                          !.pc = IF cl[c].i = Len(request)
                                                 THEN "m_write_term"
                                                 ELSE "m_write_param",
                                          !.log = Append(@ \o w.events,
                                                         WriteEvent(Frame(out)))]]
              ELSE /\ cl' = [cl EXCEPT ![c] =
                            Finish([cl[c] EXCEPT !.log = @ \o w.events],
                                   w.kind, NullV)]
                   /\ UNCHANGED wire
    /\ UNCHANGED <<sock, pending, server_packs, peer, gh>>

\* WriteTerminator without its _write
WriteTerminatorSkipped(c) ==
    /\ cl[c].pc = "m_write_term"
    /\ cl' = [cl EXCEPT ![c] = StartRead(cl[c], MetaSchema, "m_read_meta")]
    /\ pending' = Append(pending,
                    [kind |-> "message", by |-> c,
                     response |-> MethodResponse(cl[c].method)])
    /\ UNCHANGED <<wire, sock, server_packs, peer, named_types, gh>>

\* _write_terminator(): the zero-length buffer; message goes on to its reads
WriteTerminator(c) ==
    /\ cl[c].pc = "m_write_term"
    /\ SocketWrite(c, <<>>)
    /\ cl' = [cl EXCEPT ![c] =
                StartRead([cl[c] EXCEPT !.log = Append(@, WriteEvent(Frame(<<>>)))],
                          MetaSchema, "m_read_meta")]
    /\ pending' = Append(pending,
                    [kind |-> "message", by |-> c,
                     response |-> MethodResponse(cl[c].method)])
    /\ UNCHANGED <<sock, server_packs, peer, named_types, gh>>


(***************************************************************************)
(* handshake                                                               *)
(***************************************************************************)
HandshakeFrame(client_hash, client_protocol, server_hash) ==
    [client_hash |-> client_hash, client_protocol |-> client_protocol,
     server_hash |-> server_hash, response |-> NullV]

\* the record handshake builds from its three arguments
RequestRecord(frame) ==
    RecV(<<frame.client_hash, frame.client_protocol, frame.server_hash,
           MapV(<<>>)>>)

\* RetryFrame leaving the client protocol at its default
RetryFrameNoProtocol(response) ==
    HandshakeFrame(RecordGet(handshake_response, response, "serverHash"),
                   NullV,
                   RecordGet(handshake_response, response, "serverHash"))

\* the arguments of the nested handshake call made on match == "NONE"
RetryFrame(response) ==
    HandshakeFrame(RecordGet(handshake_response, response, "serverHash"),
                   RecordGet(handshake_response, response, "serverProtocol"),
                   RecordGet(handshake_response, response, "serverHash"))

\* whether handshake calls itself again after reading response
Retries(response) ==
    RecordGet(handshake_response, response, "match") = EnumV("NONE")

\* HandshakeResult handing on what the nested call returned
HandshakeResultInner(response, nested, inner) ==
    IF nested THEN inner
    ELSE RecordGet(handshake_response, response, "serverProtocol")

\* what a handshake invocation returns: the serverProtocol of the response
\* it read itself; inner, the value of a nested call, is dropped
HandshakeResult(response, nested, inner) ==
    RecordGet(handshake_response, response, "serverProtocol")

\* handshake is called by the user
HandshakeCall(c, in) ==
    /\ cl[c].pc = "idle"
    /\ cl[c].calls < CallBudget
    /\ cl' = [cl EXCEPT ![c] =
                [Enter(cl[c], "handshake", NoInput) EXCEPT
                    !.pc = "h_write_request",
                    !.stack = <<HandshakeFrame(in.client_hash,
                                               in.client_protocol,
                                               in.server_hash)>>]]
    /\ gh' = [gh EXCEPT !.nones = 0, !.hs = <<>>, !.reqs = <<>>, !.segs = 0,
                        !.streak = 0, !.after = 0, !.sent = <<>>,
                        !.answer = NullV]
    /\ UNCHANGED <<wire, sock, pending, server_packs, peer, named_types>>

\* the request record is encoded and written as one buffer
HandshakeRequest(c) ==
    /\ cl[c].pc = "h_write_request"
    /\ LET record == RequestRecord(cl[c].stack[Len(cl[c].stack)])
       IN  IF Encodable(handshake_request, record)
           THEN LET out == Encode(handshake_request, record)
                IN  /\ SocketWrite(c, out)
                    /\ cl' = [cl EXCEPT ![c].pc = "h_write_meta",
                                        ![c].log = Append(@, WriteEvent(Frame(out)))]
                    /\ gh' = [gh EXCEPT !.reqs = Append(@, record)]
           ELSE /\ cl' = [cl EXCEPT ![c] = Finish(cl[c], "EncodeError", NullV)]
                /\ UNCHANGED <<wire, gh>>
    /\ UNCHANGED <<sock, pending, server_packs, peer, named_types>>

\* a handshake invocation returns to its caller
HandshakeReturn(c) ==
    /\ cl[c].pc = "h_return"
    /\ LET depth == Len(cl[c].stack)
           top == cl[c].stack[depth]
           nested == RecordGet(handshake_response, top.response, "match")
                        = EnumV("NONE")
           val == HandshakeResult(top.response, nested, cl[c].ret)
       IN  cl' = [cl EXCEPT ![c] =
                    IF depth = 1 THEN Finish(cl[c], "return", val)
                    ELSE [cl[c] EXCEPT !.stack = SubSeq(@, 1, depth - 1),
                                       !.ret = val]]
    /\ UNCHANGED <<wire, sock, pending, server_packs, peer, named_types, gh>>

(***************************************************************************)
(* _read                                                                   *)
(***************************************************************************)
\* AfterFlag reading the response schema whatever the flag says
AfterFlagResponseOnly(rec, error) ==
    StartRead(rec, MethodResponse(rec.method), "m_read_response")

\* AfterFlag raising on a true flag without reading the error value
AfterFlagNoErrorRead(rec, error) ==
    IF error.b THEN Finish(rec, "Exception", NullV)
    ELSE StartRead(rec, MethodResponse(rec.method), "m_read_response")

\* message after the error flag is read: the error, or the response
AfterFlag(rec, error) ==
    IF error.b THEN StartRead(rec, ErrorSchema, "m_read_error")
    ELSE StartRead(rec, MethodResponse(rec.method), "m_read_response")

\* what the caller of _read does with the value obj it returned
AfterRead(rec, obj) ==
    CASE rec.pc = "m_read_meta" -> StartRead(rec, S_boolean, "m_read_flag")
      [] rec.pc = "m_read_flag" -> AfterFlag(rec, obj)
      [] rec.pc = "m_read_error" -> Finish(rec, "Exception", obj)
      [] rec.pc = "m_read_response" -> Finish(rec, "return", obj)
      [] rec.pc = "h_read_response" ->
            StartRead([rec EXCEPT !.stack[Len(rec.stack)].response = obj],
                      MetaSchema, "h_read_meta")
      [] rec.pc = "h_read_meta" -> StartRead(rec, S_boolean, "h_read_bool")
      [] rec.pc = "h_read_bool" -> StartRead(rec, S_null, "h_read_null")
      [] rec.pc = "h_read_null" ->
            LET response == rec.stack[Len(rec.stack)].response
            IN  IF Retries(response)
                THEN [rec EXCEPT !.pc = "h_write_request", !.rd = NoRead,
                                 !.stack = Append(@, RetryFrame(response))]
                ELSE [rec EXCEPT !.pc = "h_return", !.rd = NoRead]
      [] rec.pc = "e_read" -> Finish(rec, "return", obj)

\* "if not remaining": reading a prefix whether bytes are pending or not
ReadNextPrefix(remaining) == "prefix"

\* "if not remaining": a prefix is read next only when no declared byte is
\* pending, else the payload read is next
ReadNext(remaining) == IF remaining = 0 THEN "prefix" ELSE "payload"

\* history: the sizes (prefix included) of the buffers that make up bytes
RECURSIVE FrameSizes(_)
FrameSizes(bytes) ==
    IF Len(bytes) < PrefixLen THEN <<>>
    ELSE LET size == PrefixLen + Unpack(SubSeq(bytes, 1, PrefixLen))
         IN  <<size>> \o FrameSizes(Drop(bytes, size))

\* history: the buffers ahead in the socket once k more bytes are taken, off
\* bytes of the first having been taken before
RECURSIVE Advance(_, _, _)
Advance(frames, off, k) ==
    IF k = 0 \/ frames = <<>> THEN [frames |-> frames, off |-> off]
    ELSE IF k < Head(frames) - off
         THEN [frames |-> frames, off |-> off + k]
         ELSE Advance(Tail(frames), 0, k - (Head(frames) - off))

\* the locals of _read with a recv placed ahead of the first decode
ReadStartAtSocket(schema) ==
    [schema |-> schema, buf |-> <<>>, remaining |-> 0, at |-> "prefix"]

\* buf = io.BytesIO(); remaining = 0; the loop is entered at its try
ReadStart(schema) ==
    [schema |-> schema, buf |-> <<>>, remaining |-> 0, at |-> "try"]

\* the two parse_schema passes, then buf = io.BytesIO() and remaining = 0
ReadResolve(c) ==
    /\ Reading(cl[c].pc)
    /\ cl[c].rd.at = "resolve"
    /\ LET r == ResolveTwice(cl[c].rd.schema, named_types)
           rec == [cl[c] EXCEPT !.log = @ \o r.events]
       IN  /\ named_types' = r.named
           /\ cl' = [cl EXCEPT ![c] =
                        IF r.ok
                        THEN [rec EXCEPT !.rd = ReadStart(r.schema)]
                        ELSE Finish(rec, "UnknownType", NullV)]
    /\ UNCHANGED <<wire, sock, pending, server_packs, peer, gh>>

\* top of the loop: try to decode the accumulated bytes
ReadDecode(c) ==
    /\ Reading(cl[c].pc)
    /\ cl[c].rd.at = "try"
    /\ LET rd == cl[c].rd
           d == Decode(rd.schema, rd.buf)
           after == AfterRead([cl[c] EXCEPT !.log = Append(@, GotEvent(d.val))],
                              d.val)
       IN  IF d.ok
           THEN /\ cl' = [cl EXCEPT ![c] = after]
                /\ gh' = [gh EXCEPT
                            !.expect = IF @ = <<>> THEN @ ELSE Tail(@),
                            !.mis = IF gh.expect = <<>> THEN TRUE
                                    ELSE @ \/ Head(gh.expect) # d.val,
                            !.owner = IF @ = <<>> THEN @ ELSE Tail(@),
                            !.crossed = @ \/ (gh.owner # <<>>
                                                /\ Head(gh.owner) # c),
                            !.left = Drop(rd.buf, d.next - 1),
                            !.lost = rd.remaining,
                            !.streak = IF after.pc # "idle" THEN @
                                       ELSE IF after.outcome.kind = "Exception"
                                            THEN @ + 1 ELSE 0]
           ELSE /\ cl' = [cl EXCEPT ![c].rd.at = ReadNext(rd.remaining)]
                /\ UNCHANGED gh
    /\ UNCHANGED <<wire, sock, pending, server_packs, peer, named_types>>

\* the log with a recv noted (once per run of recvs)
NoteRecv(log) == IF log[Len(log)] = RecvEvent THEN log ELSE Append(log, RecvEvent)

\* remaining = struct.unpack_from(">L", self._socket.recv(4))[0]
ReadPrefix(c) ==
    /\ Reading(cl[c].pc)
    /\ cl[c].rd.at = "prefix"
    /\ sock # <<>> \/ peer # "open"
    /\ LET b == SubSeq(sock, 1, Min(PrefixLen, Len(sock)))
           rec == [cl[c] EXCEPT !.log = NoteRecv(@)]
       IN  /\ sock' = Drop(sock, Len(b))
           /\ cl' = [cl EXCEPT ![c] =
                        IF peer = "reset"
                        THEN Finish(rec, "ConnectionResetError", NullV)
                        ELSE IF Len(b) < PrefixLen
                        THEN Finish(rec, "struct.error", NullV)
                        ELSE [rec EXCEPT !.rd.remaining = Unpack(b),
                                         !.rd.at = "payload"]]
           /\ gh' = [gh EXCEPT
                       !.stray = @ \/ gh.frames = <<>> \/ gh.off # 0
                                   \/ Len(b) < PrefixLen,
                       !.frames = Advance(gh.frames, gh.off, Len(b)).frames,
                       !.off = Advance(gh.frames, gh.off, Len(b)).off]
    /\ UNCHANGED <<wire, pending, server_packs, peer, named_types>>

\* Accumulate without the seek to the end: the chunk overwrites the start
AccumulateAtStart(buf, chunk) == chunk \o Drop(buf, Len(chunk))

\* buf.seek(0, 2); buf.write(chunk): the chunk goes to the end of buf
Accumulate(buf, chunk) == buf \o chunk

\* the sizes recv(n) may return when m <= n bytes have arrived
ShortReads(m) == {m} \cup (1..Min(m, MaxShort))

\* num_read = buf.write(self._socket.recv(min(remaining, BUFFSIZE)))
ReadPayload(c) ==
    /\ Reading(cl[c].pc)
    /\ cl[c].rd.at = "payload"
    /\ LET rd == cl[c].rd
           n == Min(rd.remaining, BUFFSIZE)
       IN  IF n = 0
           THEN /\ cl' = [cl EXCEPT ![c].rd.at = "try",
                                    ![c].log = NoteRecv(@)]
                /\ UNCHANGED <<sock, gh>>
           ELSE /\ sock # <<>> \/ peer # "open"
                /\ IF peer = "reset"
                   THEN /\ cl' = [cl EXCEPT ![c] =
                                    Finish([cl[c] EXCEPT !.log = NoteRecv(@)],
                                           "ConnectionResetError", NullV)]
                        /\ UNCHANGED <<sock, gh>>
                   ELSE \E num_read \in ShortReads(Min(n, Len(sock))) :
                      /\ cl' = [cl EXCEPT
                                  ![c].rd.buf =
                                      Accumulate(@, SubSeq(sock, 1, num_read)),
                                  ![c].rd.remaining = @ - num_read,
                                  ![c].rd.at = "try",
                                  ![c].log = NoteRecv(@)]
                      /\ sock' = Drop(sock, num_read)
                      /\ gh' = [gh EXCEPT
                            !.frames = Advance(gh.frames, gh.off, num_read).frames,
                            !.off = Advance(gh.frames, gh.off, num_read).off]
    /\ UNCHANGED <<wire, pending, server_packs, peer, named_types>>


(***************************************************************************)
(* The frame transport on its own: _write(out) for the encoding of a value, *)
(* the peer handing the bytes back, and _read(schema).                     *)
(***************************************************************************)
\* out = the encoding of in.value; self._write(out); self._read(in.schema)
EchoWrite(c, in) ==
    /\ cl[c].pc = "idle"
    /\ cl[c].calls < MaxEchoCalls
    /\ Encodable(in.schema, in.value)
    /\ LET out == Encode(in.schema, in.value)
           rec == [Enter(cl[c], "echo", in) EXCEPT
                       !.log = <<WriteEvent(Frame(out))>>]
       IN  /\ SocketWrite(c, out)
           /\ cl' = [cl EXCEPT ![c] = StartRead(rec, in.schema, "e_read")]
    /\ UNCHANGED <<sock, pending, server_packs, peer, named_types, gh>>

RECURSIVE AllBytes(_)
AllBytes(w) == IF w = <<>> THEN <<>> ELSE Head(w).bytes \o AllBytes(Tail(w))

\* the peer delivers what was written, unchanged, to the incoming stream
Deliver ==
    /\ peer = "open"
    /\ wire # <<>>
    /\ sock' = sock \o AllBytes(wire)
    /\ wire' = <<>>
    /\ UNCHANGED <<cl, pending, server_packs, peer, named_types, gh>>

\* the peer closes its end after sending the first k bytes of what it was to
\* hand back; the bytes already sent stay readable
PeerClose ==
    /\ peer = "open"
    /\ \E k \in 0..Min(MaxSent, Len(AllBytes(wire))) :
          sock' = sock \o SubSeq(AllBytes(wire), 1, k)
    /\ wire' = <<>>
    /\ peer' = "closed"
    /\ UNCHANGED <<cl, pending, server_packs, named_types, gh>>

\* the connection is reset: what was queued is gone and recv raises
PeerReset ==
    /\ peer = "open"
    /\ sock' = <<>>
    /\ wire' = <<>>
    /\ peer' = "reset"
    /\ UNCHANGED <<cl, pending, server_packs, named_types, gh>>

(***************************************************************************)
(* The server.  It answers the oldest complete request with the values of  *)
(* a response, each value in buffers of its own (cut in up to three        *)
(* pieces), or, when it packs, all values in one buffer; a zero-length     *)
(* buffer may follow the response.                                         *)
(***************************************************************************)
HandshakeAnswer(match, protocol, hash) ==
    RecV(<<EnumV(match), protocol, hash, NullV>>)

HandshakeAnswers ==
    {HandshakeAnswer("NONE", StrV(Doc1), BytesV(ServerHash)),
     HandshakeAnswer("BOTH", NullV, NullV),
     HandshakeAnswer("BOTH", StrV(Doc2), BytesV(ServerHash)),
     HandshakeAnswer("CLIENT", StrV(Doc2), BytesV(ServerHash))}

\* the named types as the server knows them, and a schema in its terms
ServerTypes == ParseSchema(Pair, ParseSchema(Mode, {}).named).named
ServerSchema(schema) == ParseSchema(schema, ServerTypes).schema

ResponseValues(schema) ==
    CASE schema.type = "int" -> {IntV(5)}
      [] schema.type = "string" -> {StrV(<<111, 107>>)}
      [] schema.type = "null" -> {NullV}
      [] schema.type = "enum" -> {EnumV(schema.symbols[Len(schema.symbols)])}
      [] schema.type = "record" -> {RecV(<<EnumV("A"), IntV(5)>>)}

ErrorValues == {StrV(<<101, 114>>)}

\* the values of the response to request req: <<schema, value>> pairs
Responses(req) ==
    IF req.kind = "handshake"
    THEN {<< <<handshake_response, a>>, <<MetaSchema, MapV(<<>>)>>,
             <<S_boolean, BoolV(FALSE)>>, <<S_null, NullV>> >> :
            a \in {x \in HandshakeAnswers :
                     x.f[1] = EnumV("NONE") => gh.nones < MaxNone}}
    ELSE {<< <<MetaSchema, MapV(<<>>)>>, <<S_boolean, BoolV(FALSE)>>,
             <<ServerSchema(req.response), v>> >> :
            v \in ResponseValues(ServerSchema(req.response))}
         \cup
         {<< <<MetaSchema, MapV(<<>>)>>, <<S_boolean, BoolV(TRUE)>>,
             <<ErrorSchema, e>> >> : e \in ErrorValues}

\* the value of a response that the server may cut into several buffers
MainValue(req) == IF req.kind = "handshake" THEN 1 ELSE 3

\* lengths of the leading pieces of an encoding of n bytes; the rest of the
\* encoding is the last piece
CutChoices(n) ==
    {<<>>}
    \cup {<<k>> : k \in 1..Min(MaxCut, n - 1)}
    \cup UNION {{<<k, j>> : j \in 0..Min(MaxCut, n - 1 - k)} :
                    k \in 1..Min(MaxCut, n - 1)}

RECURSIVE FramePieces(_, _)
FramePieces(enc, cuts) ==
    IF cuts = <<>> THEN Frame(enc)
    ELSE Frame(SubSeq(enc, 1, Head(cuts)))
         \o FramePieces(Drop(enc, Head(cuts)), Tail(cuts))

RECURSIVE FramedValues(_, _, _, _)
FramedValues(vals, k, main, cuts) ==
    IF k > Len(vals) THEN <<>>
    ELSE FramePieces(Encode(vals[k][1], vals[k][2]),
                     IF k = main THEN cuts ELSE <<>>)
         \o FramedValues(vals, k + 1, main, cuts)

RECURSIVE Concatenated(_, _)
Concatenated(vals, k) ==
    IF k > Len(vals) THEN <<>>
    ELSE Encode(vals[k][1], vals[k][2]) \o Concatenated(vals, k + 1)

\* buffers of one caller lie between buffers of another
Interleaved(w) ==
    \E i, j, k \in 1..Len(w) :
       i < j /\ j < k /\ w[i].by = w[k].by /\ w[j].by # w[i].by

ServerRespond ==
    /\ pending # <<>>
    /\ LET req == Head(pending)
       IN  \E vals \in Responses(req), term \in BOOLEAN,
              packed \in (IF server_packs THEN BOOLEAN ELSE {FALSE}) :
             \E cuts \in (IF packed THEN {<<>>}
                          ELSE CutChoices(Len(Encode(vals[MainValue(req)][1],
                                                     vals[MainValue(req)][2])))) :
                /\ sock' = sock
                            \o (IF packed THEN Frame(Concatenated(vals, 1))
                                ELSE FramedValues(vals, 1, MainValue(req), cuts))
                            \o (IF term THEN Frame(<<>>) ELSE <<>>)
                /\ gh' = [gh EXCEPT
                            !.expect = @ \o [k \in 1..Len(vals) |-> vals[k][2]],
                            !.owner = @ \o [k \in 1..Len(vals) |-> req.by],
                            !.frames = @ \o FrameSizes(Drop(sock', Len(sock))),
                            !.sent = @ \o vals,
                            !.hs = IF req.kind = "handshake"
                                   THEN Append(@, vals[1][2]) ELSE @,
                            !.nones = IF req.kind = "handshake"
                                         /\ vals[1][2].f[1] = EnumV("NONE")
                                      THEN @ + 1 ELSE @,
                            !.answer = IF req.kind = "message"
                                       THEN vals[3][2] ELSE @,
                            !.segs = Len(cuts) + 1,
                            !.term = term,
                            !.packed = @ \/ packed]
    /\ wire' = <<>>
    /\ pending' = Tail(pending)
    /\ UNCHANGED <<cl, server_packs, peer, named_types>>

\* the server of a shared connection: it answers the oldest complete request
\* with the metadata, a false flag and the response value, a buffer each
ServerRespondPlain ==
    /\ pending # <<>>
    /\ LET req == Head(pending)
           rs == ServerSchema(req.response)
       IN  \E v \in ResponseValues(rs) :
             LET vals == << <<MetaSchema, MapV(<<>>)>>,
                            <<S_boolean, BoolV(FALSE)>>, <<rs, v>> >>
             IN  /\ sock' = sock \o FramedValues(vals, 1, 3, <<>>)
                 /\ gh' = [gh EXCEPT
                             !.expect = @ \o [k \in 1..3 |-> vals[k][2]],
                             !.owner = @ \o [k \in 1..3 |-> req.by],
                             !.mixed = @ \/ Interleaved(wire),
                             !.frames = @ \o FrameSizes(Drop(sock', Len(sock))),
                             !.sent = @ \o vals,
                             !.answer = v]
    /\ wire' = <<>>
    /\ pending' = Tail(pending)
    /\ UNCHANGED <<cl, server_packs, peer, named_types>>

(***************************************************************************)
(* Specifications.                                                         *)
(***************************************************************************)
Next ==
    \/ \E c \in Callers, in \in MessageInputs : MessageCall(c, in)
    \/ \E c \in Callers : WriteMetadata(c)
    \/ \E c \in Callers : WriteMethodName(c)
    \/ \E c \in Callers : WriteParameter(c)
    \/ \E c \in Callers : WriteTerminator(c)
    \/ \E c \in Callers, in \in HandshakeInputs : HandshakeCall(c, in)
    \/ \E c \in Callers : HandshakeRequest(c)
    \/ \E c \in Callers : HandshakeReturn(c)
    \/ \E c \in Callers : ReadResolve(c)
    \/ \E c \in Callers : ReadDecode(c)
    \/ \E c \in Callers : ReadPrefix(c)
    \/ \E c \in Callers : ReadPayload(c)
    \/ ServerRespond

\* the server sends every value in buffers of its own
Spec == Init /\ [][Next]_vars

\* the server may pack all the values of a response into one buffer
SpecPacked == InitPacked /\ [][Next]_vars

\* the frame transport against a peer that sends back what it was sent
NextEcho ==
    \/ \E c \in Callers, in \in EchoInputs : EchoWrite(c, in)
    \/ Deliver
    \/ \E c \in Callers : ReadResolve(c)
    \/ \E c \in Callers : ReadDecode(c)
    \/ \E c \in Callers : ReadPrefix(c)
    \/ \E c \in Callers : ReadPayload(c)

SpecEcho == Init /\ [][NextEcho]_vars

\* the frame transport against a peer that may close or reset the connection;
\* the reading thread keeps running and an open peer sends what it has to send
ReadStep == \E c \in Callers : ReadResolve(c) \/ ReadDecode(c)
                                 \/ ReadPrefix(c) \/ ReadPayload(c)

NextClose ==
    \/ \E c \in Callers, in \in CloseInputs : EchoWrite(c, in)
    \/ Deliver
    \/ PeerClose
    \/ PeerReset
    \/ \E c \in Callers : ReadResolve(c)
    \/ \E c \in Callers : ReadDecode(c)
    \/ \E c \in Callers : ReadPrefix(c)
    \/ \E c \in Callers : ReadPayload(c)

SpecClose ==
    Init /\ [][NextClose]_vars /\ WF_vars(ReadStep) /\ WF_vars(Deliver)

\* calls on methods with named types
NextTypes ==
    \/ \E c \in Callers, in \in TypedInputs :
          cl[c].calls < MaxTypedCalls /\ MessageCall(c, in)
    \/ \E c \in Callers : WriteMetadata(c)
    \/ \E c \in Callers : WriteMethodName(c)
    \/ \E c \in Callers : WriteParameter(c)
    \/ \E c \in Callers : WriteTerminator(c)
    \/ \E c \in Callers, in \in HandshakeInputs :
          cl[c].calls < MaxTypedCalls /\ HandshakeCall(c, in)
    \/ \E c \in Callers : HandshakeRequest(c)
    \/ \E c \in Callers : HandshakeReturn(c)
    \/ \E c \in Callers : ReadResolve(c)
    \/ \E c \in Callers : ReadDecode(c)
    \/ \E c \in Callers : ReadPrefix(c)
    \/ \E c \in Callers : ReadPayload(c)
    \/ ServerRespond

SpecTypes == Init /\ [][NextTypes]_vars

\* message calls of two callers on one connection
NextShared ==
    \/ \E c \in SharedCallers, in \in SharedInputs : MessageCall(c, in)
    \/ \E c \in SharedCallers : WriteMetadata(c)
    \/ \E c \in SharedCallers : WriteMethodName(c)
    \/ \E c \in SharedCallers : WriteParameter(c)
    \/ \E c \in SharedCallers : WriteTerminator(c)
    \/ \E c \in SharedCallers : ReadResolve(c)
    \/ \E c \in SharedCallers : ReadDecode(c)
    \/ \E c \in SharedCallers : ReadPrefix(c)
    \/ \E c \in SharedCallers : ReadPayload(c)
    \/ ServerRespondPlain

SpecShared == InitShared /\ [][NextShared]_vars


(***************************************************************************)
(* Reading the history of a call.                                          *)
(***************************************************************************)
IsWrite(ev) == ev.e = "write"
IsGot(ev) == ev.e = "got"
IsReadOrGot(ev) == ev.e \in {"read", "got"}
\* what the call did with the socket, or a _read entered or returning
IsSocketEvent(ev) == ev.e \in {"write", "read", "recv", "got"}

Writes(c) == SelectSeq(cl[c].log, IsWrite)

Payload(bytes) == Drop(bytes, PrefixLen)

\* bytes is one buffer: a length prefix and that many bytes, which are
\* exactly one value of schema
OneValueBuffer(bytes, schema) ==
    /\ Len(bytes) >= PrefixLen
    /\ Unpack(SubSeq(bytes, 1, PrefixLen)) = Len(Payload(bytes))
    /\ LET d == Decode(schema, Payload(bytes))
       IN  d.ok /\ d.next = Len(Payload(bytes)) + 1

IsRequestWrite(ev) ==
    ev.e = "write" /\ OneValueBuffer(ev.bytes, handshake_request)
IsResponseGot(ev) == ev.e = "got" /\ ev.val.t = "record"

\* the message call of caller c got past _validate_parameters
PassedValidation(c) ==
    /\ cl[c].op = "message"
    /\ ValidateParameters(MethodRequest(cl[c].in.m), cl[c].in.args,
                          cl[c].in.kwargs, named_types).kind = "ok"

\* the positional argument that falls to parameter i: one more than the
\* number of earlier parameters not passed by name
PositionalIndex(request, kwargs, i) ==
    1 + Cardinality({k \in 1..(i - 1) : ~HasKey(kwargs, request[k].name)})

HasArgument(in, i) ==
    \/ HasKey(in.kwargs, MethodRequest(in.m)[i].name)
    \/ PositionalIndex(MethodRequest(in.m), in.kwargs, i) <= Len(in.args)

ArgumentFor(in, i) ==
    IF HasKey(in.kwargs, MethodRequest(in.m)[i].name)
    THEN Lookup(in.kwargs, MethodRequest(in.m)[i].name)
    ELSE in.args[PositionalIndex(MethodRequest(in.m), in.kwargs, i)]

Finished(c) == cl[c].pc = "idle"
EmptyMapBuffer == Frame(Encode(MetaSchema, MapV(<<>>)))
Terminator == Frame(<<>>)

(***************************************************************************)
(* C1.  A message call that passes validation on a method of N parameters  *)
(* writes N + 3 buffers: the empty metadata map, the method name, one      *)
(* buffer per parameter in declaration order, the zero-length terminator;  *)
(* no write comes after a read of the call.                                *)
(***************************************************************************)
C1_RequestBuffers ==
    \A c \in Callers :
      PassedValidation(c) =>
        LET log == SelectSeq(cl[c].log, IsSocketEvent)
            W == Writes(c)
            request == MethodRequest(cl[c].in.m)
            N == Len(request)
        IN  /\ \A k \in 1..Len(log) :
                  log[k].e = "write" => \A j \in 1..(k - 1) : log[j].e = "write"
            /\ Len(W) <= N + 3
            /\ Len(log) > Len(W) => Len(W) = N + 3
            /\ Finished(c) => Len(W) = N + 3
            /\ Len(W) >= 1 => W[1].bytes = EmptyMapBuffer
            /\ Len(W) >= 2 =>
                  W[2].bytes = Frame(Encode(S_string, StrV(cl[c].in.m.name)))
            /\ \A i \in 1..N :
                  Len(W) >= 2 + i => OneValueBuffer(W[2 + i].bytes, request[i].type)
            /\ Len(W) = N + 3 => W[N + 3].bytes = Terminator

\* a call on a method of two parameters has written its request and reads
C1_Witness ==
    \E c \in Callers :
      /\ PassedValidation(c)
      /\ Len(MethodRequest(cl[c].in.m)) = 2
      /\ cl[c].pc = "m_read_flag"
      /\ Len(Writes(c)) = 5

(***************************************************************************)
(* C2.  A message call reads the metadata map, then the boolean flag, then *)
(* one more value: under the error schema when the flag is true, and the   *)
(* call then fails with the decoded value; under the method's response     *)
(* schema (null when none is declared) when it is false, and the call      *)
(* returns the decoded value.                                              *)
(***************************************************************************)
C2_ResponseReads ==
    \A c \in Callers :
      PassedValidation(c) =>
        LET E == SelectSeq(cl[c].log, IsReadOrGot)
        IN  /\ Len(E) <= 6
            /\ Len(E) >= 1 => E[1] = ReadEvent(MetaSchema)
            /\ Len(E) >= 2 => E[2].e = "got"
            /\ Len(E) >= 3 => E[3] = ReadEvent(S_boolean)
            /\ Len(E) >= 4 => E[4].e = "got" /\ E[4].val.t = "boolean"
            /\ Len(E) >= 5 =>
                  E[5] = ReadEvent(IF E[4].val.b THEN ErrorSchema
                                   ELSE MethodResponse(cl[c].in.m))
            /\ Len(E) >= 6 => E[6].e = "got"
            /\ Finished(c) =>
                  /\ Len(E) = 6
                  /\ cl[c].outcome =
                        [kind |-> IF E[4].val.b THEN "Exception" ELSE "return",
                         val |-> E[6].val]

\* a call has failed with the error string the server sent
C2_Witness ==
    \E c \in Callers :
      /\ PassedValidation(c)
      /\ Finished(c)
      /\ cl[c].outcome = [kind |-> "Exception", val |-> StrV(<<101, 114>>)]


(***************************************************************************)
(* C3.  In a handshake call every request after the first is built from    *)
(* the NONE response read before it (its serverHash as client and server   *)
(* hash, its serverProtocol as client protocol); a response that is not    *)
(* NONE is followed by no request; and the call returns after k + 1        *)
(* requests and responses when the server answered NONE k times, the last  *)
(* response read being the one that is not NONE.                           *)
(***************************************************************************)
Match(response) == RecordGet(handshake_response, response, "match")
ServerProtocol(response) ==
    RecordGet(handshake_response, response, "serverProtocol")
ServerHashOf(response) == RecordGet(handshake_response, response, "serverHash")

C3_HandshakeRetry ==
    \A c \in Callers :
      cl[c].op = "handshake" =>
        LET RW == SelectSeq(cl[c].log, IsRequestWrite)
            RS == SelectSeq(cl[c].log, IsResponseGot)
        IN  /\ Len(RS) <= Len(RW)
            /\ Len(RW) <= Len(RS) + 1
            /\ \A j \in 2..Len(RW) :
                  /\ Match(RS[j - 1].val) = EnumV("NONE")
                  /\ RW[j].bytes =
                        Frame(Encode(handshake_request,
                                     RecV(<<ServerHashOf(RS[j - 1].val),
                                            ServerProtocol(RS[j - 1].val),
                                            ServerHashOf(RS[j - 1].val),
                                            MapV(<<>>)>>)))
            /\ \A j \in 1..Len(RS) :
                  Match(RS[j].val) # EnumV("NONE") => Len(RW) = j
            /\ (Finished(c) /\ cl[c].outcome.kind = "return") =>
                  /\ Len(RW) = gh.nones + 1
                  /\ Len(RS) = Len(RW)
                  /\ Match(RS[Len(RS)].val) # EnumV("NONE")
                  /\ \A j \in 1..Len(RS) : RS[j].val = gh.hs[j]

\* a handshake has returned after two NONE answers
C3_Witness ==
    \E c \in Callers :
      /\ cl[c].op = "handshake"
      /\ Finished(c)
      /\ cl[c].outcome.kind = "return"
      /\ gh.nones = 2
      /\ Len(gh.hs) = 3

(***************************************************************************)
(* C4.  As claimed: the outermost handshake returns the serverProtocol of  *)
(* the last response, the one whose match is BOTH or CLIENT.               *)
(***************************************************************************)
C4_ReturnsTerminalProtocol ==
    \A c \in Callers :
      (cl[c].op = "handshake" /\ Finished(c) /\ cl[c].outcome.kind = "return") =>
        cl[c].outcome.val = ServerProtocol(gh.hs[Len(gh.hs)])

(***************************************************************************)
(* C4, amended.  The outermost handshake returns the serverProtocol of the *)
(* first response of the call, the answer to the request built from the    *)
(* caller's arguments; what the nested calls return is dropped.            *)
(***************************************************************************)
C4_ReturnsFirstProtocol ==
    \A c \in Callers :
      (cl[c].op = "handshake" /\ Finished(c) /\ cl[c].outcome.kind = "return") =>
        cl[c].outcome.val = ServerProtocol(gh.hs[1])

\* a handshake has returned after a retry whose last response carries
\* another serverProtocol than the first
C4_Witness ==
    \E c \in Callers :
      /\ cl[c].op = "handshake"
      /\ Finished(c)
      /\ cl[c].outcome.kind = "return"
      /\ Len(gh.hs) >= 2
      /\ ServerProtocol(gh.hs[1]) # ServerProtocol(gh.hs[Len(gh.hs)])

(***************************************************************************)
(* C5.  As claimed: before the reads of a handshake attempt four buffers   *)
(* have been written for it: the request record, the empty metadata map,   *)
(* the empty method name and the zero-length terminator.                   *)
(***************************************************************************)
C5_FourBuffersPerAttempt ==
    \A c \in Callers :
      (cl[c].op = "handshake" /\ Reading(cl[c].pc)) =>
        LET W == Writes(c)
            attempts == Len(cl[c].stack)
        IN  IF Len(W) # 4 * attempts THEN FALSE
            ELSE \A a \in 1..attempts :
                    /\ IsRequestWrite(W[4 * a - 3])
                    /\ W[4 * a - 2].bytes = EmptyMapBuffer
                    /\ W[4 * a - 1].bytes = Frame(Encode(S_string, StrV(<<>>)))
                    /\ W[4 * a].bytes = Terminator

(***************************************************************************)
(* C6.  As claimed: a message call in which some declared parameter has    *)
(* neither a named argument nor a positional argument left fails, and      *)
(* nothing has been written.                                               *)
(***************************************************************************)
C6_BindingErrorBeforeWrite ==
    \A c \in Callers :
      (/\ cl[c].op = "message"
       /\ \E i \in 1..Len(MethodRequest(cl[c].in.m)) : ~HasArgument(cl[c].in, i))
      => /\ Finished(c)
         /\ cl[c].outcome.kind \notin {"none", "return"}
         /\ Writes(c) = <<>>

(***************************************************************************)
(* C7.  After one or more message calls in a row that failed with a remote *)
(* error, a message call that the server answers with metadata, a false    *)
(* flag and a response value returns that value.                           *)
(***************************************************************************)
C7_UsableAfterRemoteError ==
    \A c \in Callers :
      (PassedValidation(c) /\ Finished(c) /\ gh.after >= 1) =>
        /\ Len(gh.sent) = 3
        /\ gh.sent[2][2] = BoolV(FALSE) =>
              cl[c].outcome = [kind |-> "return", val |-> gh.sent[3][2]]
        /\ gh.sent[2][2] = BoolV(TRUE) =>
              cl[c].outcome = [kind |-> "Exception", val |-> gh.sent[3][2]]

\* a call has returned the int the server sent, after two failed calls
C7_Witness ==
    \E c \in Callers :
      /\ PassedValidation(c)
      /\ Finished(c)
      /\ gh.after = 2
      /\ cl[c].outcome = [kind |-> "return", val |-> IntV(5)]

(***************************************************************************)
(* C8.  In a message call where every declared parameter has an argument,  *)
(* the buffer of parameter i holds the named argument of that name when    *)
(* there is one, and otherwise the positional argument whose index counts  *)
(* the earlier parameters not passed by name.                              *)
(***************************************************************************)
C8_ArgumentBinding ==
    \A c \in Callers :
      (/\ PassedValidation(c)
       /\ \A i \in 1..Len(MethodRequest(cl[c].in.m)) : HasArgument(cl[c].in, i))
      => LET W == Writes(c)
             request == MethodRequest(cl[c].in.m)
         IN  \A i \in 1..Len(request) :
                Len(W) >= 2 + i =>
                  W[2 + i].bytes =
                     Frame(Encode(request[i].type, ArgumentFor(cl[c].in, i)))

\* add(2, a=6): a is bound by name, b takes the first positional argument
C8_Witness ==
    \E c \in Callers :
      /\ PassedValidation(c)
      /\ cl[c].in = [m |-> M_add, args |-> <<IntV(2)>>,
                     kwargs |-> << <<"a", IntV(6)>> >>]
      /\ cl[c].pc = "m_write_term"
      /\ Writes(c)[3].bytes = Frame(Encode(S_int, IntV(6)))
      /\ Writes(c)[4].bytes = Frame(Encode(S_int, IntV(2)))

(***************************************************************************)
(* C9.  However the server cuts the encoding of a value into buffers, the  *)
(* reads of a call return what they return when every value arrives in    *)
(* one buffer: the k-th read returns the decoding of the whole encoding of *)
(* the k-th value sent, and no read is left waiting for bytes once the     *)
(* server has sent its response.                                           *)
(***************************************************************************)
Gots(c) == SelectSeq(cl[c].log, IsGot)

SingleBufferRead(schema, value) == Decode(schema, Encode(schema, value)).val

C9_SegmentsDecodeAlike ==
    \A c \in Callers :
      LET G == Gots(c)
      IN  /\ Len(G) <= Len(gh.sent)
          /\ \A k \in 1..Len(G) :
                G[k].val = SingleBufferRead(gh.sent[k][1], gh.sent[k][2])
          /\ (Reading(cl[c].pc) /\ cl[c].rd.at = "prefix" /\ pending = <<>>)
                => sock # <<>>

\* a handshake response sent in three buffers has been read, and the three
\* reads after it
C9_Witness ==
    \E c \in Callers :
      /\ cl[c].op = "handshake"
      /\ cl[c].pc = "h_return"
      /\ gh.segs = 3
      /\ Len(Gots(c)) = 4

(***************************************************************************)
(* C10.  As claimed: the bytes a _read left undecoded in its accumulator   *)
(* are the first bytes the next _read decodes from.                        *)
(***************************************************************************)
C10_TrailingBytesKept ==
    \A c \in Callers :
      (Reading(cl[c].pc) /\ cl[c].rd.at = "try") =>
        /\ Len(cl[c].rd.buf) >= Len(gh.left)
        /\ SubSeq(cl[c].rd.buf, 1, Len(gh.left)) = gh.left

(***************************************************************************)
(* C11.  Round trip through the frame transport: when the bytes _write     *)
(* emits for the encoding of a value V under a schema S have been handed   *)
(* to the incoming stream, _read(S) returns V and nothing else, for        *)
(* payloads of zero bytes, of fewer than BUFFSIZE, of BUFFSIZE and of more *)
(* than BUFFSIZE bytes; the read is never left waiting once the bytes are  *)
(* delivered.                                                              *)
(***************************************************************************)
C11_FrameRoundTrip ==
    \A c \in Callers :
      cl[c].op = "echo" =>
        /\ Finished(c) =>
              cl[c].outcome = [kind |-> "return", val |-> cl[c].in.value]
        /\ (~Finished(c) /\ wire = <<>> /\ cl[c].rd.at # "try") => sock # <<>>
        /\ Writes(c) =
              <<WriteEvent(Pack(Len(Encode(cl[c].in.schema, cl[c].in.value)))
                           \o Encode(cl[c].in.schema, cl[c].in.value))>>

\* the string longer than a chunk has come back, read in several recvs
C11_Witness ==
    \E c \in Callers :
      /\ cl[c].op = "echo"
      /\ Finished(c)
      /\ cl[c].in.value = StrV(BigString)
      /\ Len(Encode(cl[c].in.schema, cl[c].in.value)) > BUFFSIZE
      /\ cl[c].outcome = [kind |-> "return", val |-> StrV(BigString)]

(***************************************************************************)
(* C12.  The named types of the connection are a table that only grows:    *)
(* across handshake and message calls on the schemas of one protocol (a    *)
(* name has one definition in them) no step removes a name or changes the  *)
(* definition stored under it, a name is stored once, and what every       *)
(* resolution of the running call has defined is what the table of the     *)
(* connection holds, whichever of _read, _validate_parameters and          *)
(* _write_parameters ran it.                                               *)
(***************************************************************************)
RECURSIVE Defined(_)
\* the items [name, def] of the named types that schema defines
Defined(schema) ==
    CASE schema.type = "union" ->
            UNION {Defined(schema.branches[k]) : k \in 1..Len(schema.branches)}
      [] schema.type = "record" ->
            (IF IsDefinition(schema)
             THEN {[name |-> schema.name, def |-> schema]} ELSE {})
            \cup UNION {Defined(schema.fields[k].type) :
                           k \in 1..Len(schema.fields)}
      [] schema.type \in {"enum", "fixed"} ->
            IF IsDefinition(schema)
            THEN {[name |-> schema.name, def |-> schema]} ELSE {}
      [] OTHER -> {}

IsResolve(ev) == ev.e = "resolve"

C13_NoAlternationEnforced ==
    \A c \in SharedCallers :
      (cl[c].pc = "idle" /\ cl[c].calls < CallBudget) =>
         \A in \in SharedInputs : ENABLED MessageCall(c, in)

C13_Witness ==
    /\ gh.mixed
    /\ gh.crossed
    /\ \E c \in SharedCallers :
          /\ cl[c].op = "message"
          /\ cl[c].in.m = M_ping
          /\ cl[c].outcome = [kind |-> "return", val |-> NullV]
          /\ \E d \in SharedCallers \ {c} : cl[d].pc = "m_read_flag"

(***************************************************************************)
(* C14.  When the four reads of a handshake attempt are finished (the      *)
(* attempt is about to return, or the retry request is about to be         *)
(* written) every buffer the server sent for the response has been taken   *)
(* from the socket: nothing of the response is left in it.                 *)
(***************************************************************************)
AttemptReadsDone(c) ==
    /\ cl[c].op = "handshake"
    /\ cl[c].rd = NoRead
    /\ \/ cl[c].pc = "h_return"
       \/ cl[c].pc = "h_write_request" /\ Len(cl[c].stack) > 1

C14_ResponseDrained ==
    \A c \in Callers :
       (AttemptReadsDone(c) /\ ~gh.term) => sock = <<>>

(***************************************************************************)
(* C15.  _read attempts a decode only when no declared payload byte of the *)
(* current segment is unread: at every decode attempt, and so at every     *)
(* return, remaining is zero.                                              *)
(***************************************************************************)
C15_WholeSegments ==
    \A c \in Callers :
       (Reading(cl[c].pc) /\ cl[c].rd.at = "try") => cl[c].rd.remaining = 0

(***************************************************************************)
(* C16.  Once the peer has closed or reset the connection, a _read that is *)
(* running comes to an end: it does not go on forever.                     *)
(***************************************************************************)
C16_ReadEnds ==
    \A c \in Callers :
       (Reading(cl[c].pc) /\ peer # "open") ~> ~Reading(cl[c].pc)

(***************************************************************************)
(* C17.  In a message call the j-th parameter write comes straight after   *)
(* exactly two resolution passes of its own: the first is given the        *)
(* declared type of the j-th parameter, the second what the first          *)
(* returned, and the bytes written are an argument of the call encoded     *)
(* under what the second returned.  Every _read makes the same two passes  *)
(* over its schema before anything else, and decodes under the result of   *)
(* the second.                                                             *)
(***************************************************************************)
IsResolveAt(log, i) == i >= 1 /\ i <= Len(log) /\ log[i].e = "resolve"

\* the number of writes among the first i events of the log
WriteOrdinal(log, i) == Len(SelectSeq(SubSeq(log, 1, i), IsWrite))

\* the values passed to the call
CallValues(in) ==
    {in.args[k] : k \in 1..Len(in.args)}
    \cup {in.kwargs[k][2] : k \in 1..Len(in.kwargs)}

ParameterWriteResolved(request, in, log, i) ==
    LET j == WriteOrdinal(log, i) - 2
    IN  (j >= 1 /\ j <= Len(request)) =>
           /\ IsResolveAt(log, i - 1)
           /\ IsResolveAt(log, i - 2)
           /\ ~IsResolveAt(log, i - 3)
           /\ log[i - 2].in = request[j].type
           /\ log[i - 1].in = log[i - 2].out
           /\ \E d \in CallValues(in) :
                 log[i].bytes = Frame(Encode(log[i - 1].out, d))

ReadResolved(rec, i) ==
    LET log == rec.log
        n == Len(log)
    IN  /\ i = n => (rec.rd.at = "resolve" \/ rec.outcome.kind = "UnknownType")
        /\ i < n => /\ IsResolveAt(log, i + 1)
                    /\ log[i + 1].in = log[i].schema
        /\ i + 1 = n => rec.outcome.kind = "UnknownType"
        /\ i + 1 < n => /\ IsResolveAt(log, i + 2)
                        /\ log[i + 2].in = log[i + 1].out
                        /\ ~IsResolveAt(log, i + 3)
        /\ (i + 2 = n /\ Reading(rec.pc)) => rec.rd.buf = <<>>
        /\ (i + 1 < n /\ Reading(rec.pc)
               /\ \A k \in (i + 1)..n : log[k].e # "read") =>
              /\ rec.rd.at # "resolve"
              /\ rec.rd.schema = log[i + 2].out

C17_DoubleResolution ==
    \A c \in Callers :
       cl[c].op = "message" =>
          \A i \in 1..Len(cl[c].log) :
             /\ cl[c].log[i].e = "write" =>
                   ParameterWriteResolved(MethodRequest(cl[c].in.m), cl[c].in,
                                          cl[c].log, i)
             /\ cl[c].log[i].e = "read" => ReadResolved(cl[c], i)

C17_Witness ==
    \E c \in Callers :
       /\ cl[c].op = "message"
       /\ cl[c].in.m = M_swap
       /\ cl[c].outcome = [kind |-> "return", val |-> EnumV("B")]
       /\ \E i \in 1..Len(cl[c].log) :
             /\ cl[c].log[i] = ResolveEvent(S_ref("Mode"), Mode)
             /\ cl[c].log[i + 1] = ResolveEvent(Mode, Mode)
             /\ cl[c].log[i + 2]
                  = WriteEvent(Frame(Encode(Mode, EnumV("B"))))

(***************************************************************************)
(* C18.  With a server that sends every value in buffers of its own, every *)
(* 4-byte group a read takes for a length prefix is the prefix of a buffer *)
(* the server wrote, every value a read returns is the next value the      *)
(* server sent, in order, a call that ends with a value or a remote error  *)
(* has been returned every value sent, and taking a zero-length buffer     *)
(* off the socket adds nothing to the accumulator.                         *)
(***************************************************************************)
C18_StreamAligned ==
    /\ ~gh.stray
    /\ ~gh.mis
    /\ \A c \in Callers :
          /\ (Finished(c) /\ cl[c].outcome.kind \in {"return", "Exception"})
                => gh.expect = <<>>
          /\ (Reading(cl[c].pc) /\ cl[c].rd.at \in {"try", "payload"}
                 /\ cl[c].rd.remaining > 0) =>
                (gh.frames # <<>> /\ gh.off = Head(gh.frames) - cl[c].rd.remaining)

\* the metadata read of a message call, not answered yet, has just taken the
\* zero-length buffer that the null read of the preceding call left in the
\* socket (the server had sent no other zero-length buffer)
C18_Witness ==
    \E c \in Callers :
       /\ cl[c].calls = 2
       /\ gh.sent = <<>>
       /\ cl[c].pc = "m_read_meta"
       /\ cl[c].rd.at = "payload"
       /\ cl[c].rd.remaining = 0
       /\ cl[c].rd.buf = <<>>
       /\ gh.off = 0
       /\ ~gh.term

(***************************************************************************)
(* C19.  A message call that has ended has written nothing or one complete *)
(* request (the empty metadata map, the method name, a buffer for each     *)
(* parameter, the terminator); it has written nothing exactly when         *)
(* validation failed, and then it ended with the validation error; while   *)
(* the call is still writing, what it has written is the beginning of a    *)
(* complete request.                                                       *)
(***************************************************************************)
RequestPrefix(c, W) ==
    LET request == MethodRequest(cl[c].in.m)
        N == Len(request)
    IN  /\ Len(W) <= N + 3
        /\ \A k \in 1..Len(W) :
              W[k].bytes =
                 IF k = 1 THEN EmptyMapBuffer
                 ELSE IF k = 2 THEN Frame(Encode(S_string, StrV(cl[c].in.m.name)))
                 ELSE IF k = N + 3 THEN Terminator
                 ELSE W[k].bytes
        /\ \A k \in 3..Min(Len(W), N + 2) :
              OneValueBuffer(W[k].bytes, request[k - 2].type)

C19_NoPartialRequest ==
    \A c \in Callers :
      cl[c].op = "message" =>
        LET W == Writes(c)
            N == Len(MethodRequest(cl[c].in.m))
        IN  /\ RequestPrefix(c, W)
            /\ Finished(c) => (W = <<>> \/ Len(W) = N + 3)
            /\ (Finished(c) /\ W = <<>>) =>
                  /\ ~PassedValidation(c)
                  /\ cl[c].log = <<>>
                  /\ cl[c].outcome.kind
                       \in {"UnboundLocalError", "EncodeError", "UnknownType"}
            /\ ~PassedValidation(c) => (Finished(c) /\ W = <<>>)

\* a call whose second parameter cannot be encoded has ended with the
\* encoding error and without a write, the wire holding nothing of it
C19_Witness ==
    \E c \in Callers :
      /\ cl[c].op = "message"
      /\ Len(MethodRequest(cl[c].in.m)) = 2
      /\ Finished(c)
      /\ cl[c].outcome.kind = "EncodeError"
      /\ Writes(c) = <<>>
      /\ wire = <<>>

(***************************************************************************)
(* C20.  A _read of the null schema never gets to a recv: no step taken    *)
(* during it changes the bytes queued in the socket, its accumulator       *)
(* stays empty, and the step at its first decode attempt returns null.     *)
(***************************************************************************)
ReadingNull(rec) == Reading(rec.pc) /\ rec.rd.schema = S_null

C20_NullReadsNothing ==
    [][\A c \in Callers :
         (ReadingNull(cl[c]) /\ cl'[c] # cl[c]) =>
            /\ sock' = sock
            /\ cl[c].rd.at \in {"resolve", "try"}
            /\ cl[c].rd.buf = <<>>
            /\ cl[c].rd.at = "resolve" =>
                  (ReadingNull(cl'[c]) /\ cl'[c].rd.at = "try")
            /\ cl[c].rd.at = "try" =>
                  /\ cl'[c].pc # cl[c].pc
                  /\ Len(cl'[c].log) > Len(cl[c].log)
                  /\ cl'[c].log[Len(cl[c].log) + 1] = GotEvent(NullV)]_vars

\* a call with the default response schema has returned null and the
\* zero-length buffer the server sent for the null is still in the socket
C20_Witness ==
    \E c \in Callers :
      /\ cl[c].calls = 1
      /\ cl[c].op = "message"
      /\ cl[c].in.m = M_ping
      /\ cl[c].outcome = [kind |-> "return", val |-> NullV]
      /\ ~gh.term
      /\ sock = Terminator

====
